---------------------------- MODULE Spec2Model ----------------------------
(***************************************************************************)
(* The file-backed message store of toy-kafka                              *)
(* (svr/backends/implementations/filestore/filestore.go) as a state        *)
(* machine.  The state is what lives on disk under rootDir (the index      *)
(* file, the topic directories, the message files), the package-level      *)
(* mutex, the wall clock, and for every calling goroutine the call it is   *)
(* in and the locals of that call.                                         *)
(*                                                                         *)
(* The packages index and filenamer are imported by filestore.go but are   *)
(* not part of the source at hand; their operations are modelled from the  *)
(* design document (sections 3, 4.1, 4.2, 6).                              *)
(*                                                                         *)
(* File access modes are modelled where the code fixes them:               *)
(*   - saveIndex opens the index file with os.Open, i.e. O_RDONLY; a       *)
(*     write through that descriptor fails on every platform, so Encode    *)
(*     returns an error and the file keeps its bytes.                      *)
(*   - saveAndRegisterMessage opens the message file with                  *)
(*     os.OpenFile(path, os.O_APPEND, 0666): no access mode is given.      *)
(*     On POSIX systems this is O_RDONLY|O_APPEND and file.Write fails     *)
(*     (EBADF); on Windows the Go runtime grants FILE_APPEND_DATA for      *)
(*     O_APPEND and the write succeeds.  The outcome of file.Write is      *)
(*     therefore a nondeterministic choice (which also covers ordinary     *)
(*     I/O errors).                                                        *)
(* A stored record is modelled by the storedMessage value handed to the    *)
(* gob encoder together with the length of its encoding.                   *)
(***************************************************************************)
EXTENDS Integers, Sequences, FiniteSets

\* ------------------------------------------------------------------------
\* Bounds of the model and constants of the program.
\* ------------------------------------------------------------------------

\* Number of goroutines calling the store.
NProcs == 2

\* The wall clock runs over 0..MaxTime.
MaxTime == 1

\* filestore.go:20
maximumFileSize == 1048576

\* The newReadFrom that Poll returns (filestore.go:63).
PollNewReadFrom == 11

\* The nRemoved that RemoveOldMessages returns (filestore.go:54).
RemoveOldMessagesResult == -1

\* The message number that every failing return of store carries.
ErrorMessageNumber == -1

\* The first message number of a topic (design document, section 3).
Origin == 0

Procs == 1 .. NProcs

Topics == {"a1", "t1"}

\* The messages a caller may hand to Store, told apart by the length of
\* their encoding: half a message file, and one byte more than a message file.
Messages == {"half", "over"}

Times == 0 .. MaxTime

\* Poll's readFrom arguments.
ReadFroms == {Origin, Origin + 1}

\* "" as a message file name: the topic has no message file.
NoFile == 0

\* The mutex is free.
NoHolder == 0

\* len() of the gob encoding of a storedMessage that wraps the message.
EncodedLen(message) ==
    CASE message = "half" -> maximumFileSize \div 2
      [] message = "over" -> maximumFileSize + 1

\* ------------------------------------------------------------------------
\* Sequences.
\* ------------------------------------------------------------------------

RECURSIVE SumLen(_)
\* Size in bytes of a message file holding the records recs.
SumLen(recs) ==
    IF recs = <<>> THEN 0
    ELSE EncodedLen(Head(recs).message) + SumLen(Tail(recs))

Range(s) == {s[i] : i \in 1 .. Len(s)}

\* ------------------------------------------------------------------------
\* Package index (modelled from the design document, sections 3 and 4.1).
\* An index maps every topic to its next message number and to its list of
\* message files in creation order, each with the numbers and timestamps of
\* the messages registered for it.
\* ------------------------------------------------------------------------

NewIndex == [t \in Topics |-> [next |-> Origin, segs |-> <<>>]]

\* The number NextMessageNumberFor hands out.
NextMessageNumberFor(index, topic) == index[topic].next

\* The index after NextMessageNumberFor handed out a number: the number is
\* reserved "the instant it is handed out".
AfterNextMessageNumberFor(index, topic) ==
    [index EXCEPT ![topic].next = @ + 1]

CurrentMsgFileNameFor(index, topic) ==
    LET segs == index[topic].segs
    IN  IF segs = <<>> THEN NoFile ELSE segs[Len(segs)].fileName

RegisterNewFile(index, topic, fileName) ==
    [index EXCEPT ![topic].segs =
        Append(@, [fileName |-> fileName, msgs |-> <<>>])]

\* msgFileList.Meta[msgFileName].RegisterNewMessage(msgNumber, creationTime)
RegisterNewMessage(index, topic, fileName, msgNumber, creationTime) ==
    [index EXCEPT ![topic].segs =
        [i \in 1 .. Len(@) |->
            IF @[i].fileName = fileName
            THEN [@[i] EXCEPT !.msgs =
                    Append(@, [num |-> msgNumber, ts |-> creationTime])]
            ELSE @[i]]]

\* Package filenamer: a name distinct from every message file name the index
\* records for the topic, from the topic's file sequence number.
NewMsgFilenameFor(topic, index) == Len(index[topic].segs) + 1

\* ------------------------------------------------------------------------
\* State.
\* ------------------------------------------------------------------------

VARIABLES
    indexFile,  \* <rootDir>/index: [exists, valid, idx]
    dirs,       \* the topics whose directory <rootDir>/<topic> exists
    files,      \* files[topic]: message file name -> the records it holds
    now,        \* the wall clock read by time.Now()
    mutex,      \* the goroutine holding the package-level mutex, or NoHolder
    frame       \* frame[p]: the call goroutine p is in, and its locals;
                \* frame[p].peer (history): the numbers returned, while this
                \* call waited for the mutex, to the Store calls on the same
                \* topic that had written their message

vars == <<indexFile, dirs, files, now, mutex, frame>>

NoFiles == [n \in {} |-> <<>>]

IdleFrame ==
    [op |-> "idle", pc |-> "idle", topic |-> "", message |-> "", n |-> 0,
     loaded |-> NewIndex, index |-> NewIndex, msgNumber |-> 0,
     num |-> 0, err |-> "", found |-> <<>>, appended |-> FALSE,
     peer |-> {}]


\* ------------------------------------------------------------------------
\* Helpers of the store (filestore.go:70-229), as functions of the disk.
\* ------------------------------------------------------------------------

\* The entries of rootDir in the order ioutil.ReadDir lists them (by name):
\* the index file stands between the topic directories a1 and t1.
RootOrder == <<"a1", "index", "t1">>

RootEntries(f, ds) ==
    SelectSeq(RootOrder,
              LAMBDA e : IF e = "index" THEN f.exists ELSE e \in ds)

\* deleteContents: ReadDir, then RemoveAll of every entry in turn; the first
\* failure returns.  fault "ReadDir" fails the listing, fault "RemoveAll"
\* fails the removal of entry number k (when there is one).
deleteContents(f, ds, fs, fault, k) ==
    LET entries == RootEntries(f, ds)
        fails == fault = "RemoveAll" /\ k <= Len(entries)
        gone == IF fault = "ReadDir" THEN {}
                ELSE IF fails THEN {entries[i] : i \in 1 .. (k - 1)}
                ELSE Range(entries)
    IN  [indexFile |-> IF "index" \in gone
                       THEN [exists |-> FALSE, valid |-> FALSE, idx |-> NewIndex]
                       ELSE f,
         dirs |-> ds \ gone,
         files |-> [t \in Topics |-> IF t \in gone THEN NoFiles ELSE fs[t]],
         err |-> IF fault = "ReadDir" THEN "ioutil.ReadDir()"
                 ELSE IF fails THEN "os.RemoveAll()" ELSE ""]

\* retrieveIndexFromDisk with a missing index file taken for that of an empty
\* store.
retrieveIndexFromDiskMissingIsEmpty(f) ==
    IF ~f.exists THEN [index |-> NewIndex, err |-> ""]
    ELSE IF ~f.valid THEN [index |-> NewIndex, err |-> "index.Decode()"]
    ELSE [index |-> f.idx, err |-> ""]

\* retrieveIndexFromDisk: os.Open of the index file, then Decode.
retrieveIndexFromDisk(f) ==
    IF ~f.exists THEN [index |-> NewIndex, err |-> "os.Open()"]
    ELSE IF ~f.valid THEN [index |-> NewIndex, err |-> "index.Decode()"]
    ELSE [index |-> f.idx, err |-> ""]

\* index.Encode(file) on a descriptor opened with the given access mode: the
\* encoding is written to the file, which a read-only descriptor refuses.
Encode(f, mode, index) ==
    IF mode = "O_RDONLY"
    THEN [indexFile |-> f, err |-> "index.Encode()"]
    ELSE [indexFile |-> [exists |-> TRUE, valid |-> TRUE, idx |-> index],
          err |-> ""]

\* saveIndex that reports its failure after the encoding reached the file.
saveIndexFailsAfterWrite(f, index) ==
    IF ~f.exists THEN [indexFile |-> f, err |-> "os.Open()"]
    ELSE [indexFile |-> Encode(f, "O_RDWR", index).indexFile,
          err |-> "index.Encode()"]

\* saveIndex: os.Open (read-only) of the index file, then index.Encode(file).
saveIndex(f, index) ==
    IF ~f.exists THEN [indexFile |-> f, err |-> "os.Open()"]
    ELSE Encode(f, "O_RDONLY", index)

\* makeMsgToStore that leaves the record's number at its zero value.
makeMsgToStoreNumberUnset(message, msgNumber, t) ==
    [message |-> message, creationTime |-> t, messageNumber |-> 0]

\* makeMsgToStore: the record that is gob-encoded.
makeMsgToStore(message, msgNumber, t) ==
    [message |-> message, creationTime |-> t, messageNumber |-> msgNumber]

\* createTopicDirIfNotExists: os.Mkdir, where "exists already" is no error.
createTopicDirIfNotExists(ds, topic, fault) ==
    IF fault = "mkdir" THEN [dirs |-> ds, err |-> "os.Mkdir()"]
    ELSE [dirs |-> ds \cup {topic}, err |-> ""]

\* The comparison with a file that the message fills exactly taken for full.
InsufficientRoomWhenFilled(size, msgSize) == size + msgSize >= maximumFileSize

\* The comparison of fileHasInsufficentRoom (filestore.go:193).
InsufficientRoom(size, msgSize) == size + msgSize > maximumFileSize

\* fileHasInsufficentRoom: os.Open and Stat of the message file, then the
\* comparison of its size.
fileHasInsufficentRoom(fs, msgFileName, topic, msgSize, fault) ==
    IF msgFileName \notin DOMAIN fs[topic]
    THEN [insufficient |-> FALSE, err |-> "os.Open()"]
    ELSE IF fault = "stat"
    THEN [insufficient |-> FALSE, err |-> "file.Stat()"]
    ELSE [insufficient |->
              InsufficientRoom(SumLen(fs[topic][msgFileName]), msgSize),
          err |-> ""]

\* os.Create: the file is created, or truncated when it exists.
Created(fs, topic, fileName) ==
    [fs EXCEPT ![topic] =
        [n \in DOMAIN @ \cup {fileName} |->
            IF n = fileName THEN <<>> ELSE @[n]]]

\* setupNewFileForTopic: os.Create of a new message file, which is then
\* registered in the (in-memory) index.
setupNewFileForTopic(fs, ds, index, topic, fault) ==
    LET fileName == NewMsgFilenameFor(topic, index)
    IN  IF fault = "create" \/ topic \notin ds
        THEN [files |-> fs, index |-> index, msgFileName |-> NoFile,
              err |-> "os.Create()"]
        ELSE [files |-> Created(fs, topic, fileName),
              index |-> RegisterNewFile(index, topic, fileName),
              msgFileName |-> fileName, err |-> ""]

\* saveAndRegisterMessage with the registration moved before the write, so
\* that a failed write leaves the message number registered.
saveAndRegisterMessageRegistersFirst(fs, index, msgFileName, topic, msgToStore, msgNumber, fault, t) ==
    IF fault = "open" \/ msgFileName \notin DOMAIN fs[topic]
    THEN [files |-> fs, index |-> index, err |-> "os.OpenFile()",
          appended |-> FALSE]
    ELSE IF fault = "write"
    THEN [files |-> fs,
          index |-> RegisterNewMessage(index, topic, msgFileName, msgNumber, t),
          err |-> "file.Write()", appended |-> FALSE]
    ELSE [files |-> [fs EXCEPT ![topic][msgFileName] = Append(@, msgToStore)],
          index |-> RegisterNewMessage(index, topic, msgFileName, msgNumber, t),
          err |-> "", appended |-> TRUE]

\* saveAndRegisterMessage: os.OpenFile(O_APPEND) of the message file,
\* file.Write of the encoded record, then the registration of the message
\* number in the (in-memory) index under the time of a second time.Now().
saveAndRegisterMessage(fs, index, msgFileName, topic, msgToStore, msgNumber, fault, t) ==
    IF fault = "open" \/ msgFileName \notin DOMAIN fs[topic]
    THEN [files |-> fs, index |-> index, err |-> "os.OpenFile()",
          appended |-> FALSE]
    ELSE IF fault = "write"
    THEN [files |-> fs, index |-> index, err |-> "file.Write()",
          appended |-> FALSE]
    ELSE [files |-> [fs EXCEPT ![topic][msgFileName] = Append(@, msgToStore)],
          index |-> RegisterNewMessage(index, topic, msgFileName, msgNumber, t),
          err |-> "", appended |-> TRUE]

\* What a run of store leaves behind: the disk, the in-memory index at the
\* return, the number it reserved, and what it returns.
StoreOutcome(f, ds, fs, loaded, index, msgNumber, num, err, appended) ==
    [indexFile |-> f, dirs |-> ds, files |-> fs, loaded |-> loaded,
     index |-> index, msgNumber |-> msgNumber, num |-> num, err |-> err,
     appended |-> appended]

\* store: t1 is the time read by makeMsgToStore, t2 the time read by
\* saveAndRegisterMessage, fault the system call that fails (if any).
store(f, ds, fs, topic, message, fault, t1, t2) ==
    LET got == retrieveIndexFromDisk(f)
        index == got.index
        mk == createTopicDirIfNotExists(ds, topic, fault)
        msgNumber == NextMessageNumberFor(index, topic)
        index1 == AfterNextMessageNumberFor(index, topic)
        msgToStore == makeMsgToStore(message, msgNumber, t1)
        msgSize == EncodedLen(msgToStore.message)
        current == CurrentMsgFileNameFor(index1, topic)
        room == IF current = NoFile
                THEN [insufficient |-> TRUE, err |-> ""]
                ELSE fileHasInsufficentRoom(fs, current, topic, msgSize, fault)
        setup == IF room.insufficient
                 THEN setupNewFileForTopic(fs, mk.dirs, index1, topic, fault)
                 ELSE [files |-> fs, index |-> index1,
                       msgFileName |-> current, err |-> ""]
        saved == saveAndRegisterMessage(setup.files, setup.index,
                     setup.msgFileName, topic, msgToStore, msgNumber, fault, t2)
        persisted == saveIndex(f, saved.index)
    IN  IF got.err # ""
        THEN StoreOutcome(f, ds, fs, index, index, ErrorMessageNumber,
                          ErrorMessageNumber, "RetrieveIndexFromDisk()", FALSE)
        ELSE IF mk.err # ""
        THEN StoreOutcome(f, ds, fs, index, index, ErrorMessageNumber,
                          ErrorMessageNumber, "createTopicDirIfNotExists", FALSE)
        ELSE IF room.err # ""
        THEN StoreOutcome(f, mk.dirs, fs, index, index1, msgNumber,
                          ErrorMessageNumber, "fileHasInsufficietRoom()", FALSE)
        ELSE IF setup.err # ""
        THEN StoreOutcome(f, mk.dirs, fs, index, index1, msgNumber,
                          ErrorMessageNumber, "setupNewFileForTopic()", FALSE)
        ELSE IF saved.err # ""
        THEN StoreOutcome(f, mk.dirs, setup.files, index, saved.index,
                          msgNumber, ErrorMessageNumber,
                          "saveAndRegisterMessage()", FALSE)
        ELSE IF persisted.err # ""
        THEN StoreOutcome(persisted.indexFile, mk.dirs, saved.files, index,
                          saved.index, msgNumber, ErrorMessageNumber,
                          "saveIndex()", TRUE)
        ELSE StoreOutcome(persisted.indexFile, mk.dirs, saved.files, index,
                          saved.index, msgNumber, msgNumber, "", TRUE)

\* Poll (filestore.go:59-64): foundMessages, each message with its number,
\* and newReadFrom.
Poll(f, fs, topic, readFrom) ==
    [found |-> <<>>, num |-> PollNewReadFrom, err |-> ""]

\* RemoveOldMessages (filestore.go:52-55).
RemoveOldMessages(f, fs, maxAge) ==
    [num |-> RemoveOldMessagesResult, err |-> ""]

\* ------------------------------------------------------------------------
\* Initial states: the store directory as the bootstrap hands it over.  No
\* code of filestore.go creates the index file, so it is there from the
\* start: that of an empty store, that of a store that holds one message of
\* topic a1 (in message file 1, stored at time 0), or an undecodable one.
\* ------------------------------------------------------------------------

ValidIndexFile(idx) == [exists |-> TRUE, valid |-> TRUE, idx |-> idx]

CorruptIndexFile == [exists |-> TRUE, valid |-> FALSE, idx |-> NewIndex]

EmptyStore ==
    [indexFile |-> ValidIndexFile(NewIndex), dirs |-> {},
     files |-> [t \in Topics |-> NoFiles]]

FirstRecord == makeMsgToStore("half", Origin, 0)

OneMessageStore ==
    LET idx == RegisterNewMessage(
                   RegisterNewFile(AfterNextMessageNumberFor(NewIndex, "a1"),
                                   "a1", 1),
                   "a1", 1, Origin, 0)
    IN  [indexFile |-> ValidIndexFile(idx), dirs |-> {"a1"},
         files |-> [t \in Topics |->
                      IF t = "a1" THEN [n \in {1} |-> <<FirstRecord>>]
                      ELSE NoFiles]]

CorruptStore ==
    [indexFile |-> CorruptIndexFile, dirs |-> {},
     files |-> [t \in Topics |-> NoFiles]]

InitialStores == {EmptyStore, OneMessageStore, CorruptStore}

Init ==
    /\ \E s \in InitialStores :
          /\ indexFile = s.indexFile
          /\ dirs = s.dirs
          /\ files = s.files
    /\ now = 0
    /\ mutex = NoHolder
    /\ frame = [p \in Procs |-> IdleFrame]

\* ------------------------------------------------------------------------
\* Actions.
\* ------------------------------------------------------------------------

Faults == {"none", "mkdir", "stat", "create", "open", "write"}

DeleteFaults == {"none", "ReadDir", "RemoveAll"}

\* time.Now() moves on.
Tick ==
    /\ now < MaxTime
    /\ now' = now + 1
    /\ UNCHANGED <<indexFile, dirs, files, mutex, frame>>

\* Store(topic, message) is called: the goroutine arrives at mutex.Lock().
StoreCall(p, topic, message) ==
    /\ frame[p].pc = "idle"
    /\ frame' = [frame EXCEPT ![p] =
          [IdleFrame EXCEPT !.op = "Store", !.pc = "wait",
                            !.topic = topic, !.message = message]]
    /\ UNCHANGED <<indexFile, dirs, files, now, mutex>>

\* DeleteContents() is called: the goroutine arrives at mutex.Lock().
DeleteContentsCall(p) ==
    /\ frame[p].pc = "idle"
    /\ frame' = [frame EXCEPT ![p] =
          [IdleFrame EXCEPT !.op = "DeleteContents", !.pc = "wait"]]
    /\ UNCHANGED <<indexFile, dirs, files, now, mutex>>

\* mutex.Lock() returns (filestore.go:35, 45).
Lock(p) ==
    /\ frame[p].pc = "wait"
    /\ mutex = NoHolder
    /\ mutex' = p
    /\ frame' = [frame EXCEPT ![p].pc = "locked"]
    /\ UNCHANGED <<indexFile, dirs, files, now>>

\* Store, filestore.go:47: store runs.
StoreRun(p) ==
    /\ frame[p].op = "Store"
    /\ frame[p].pc = "locked"
    /\ \E fault \in Faults, t2 \in {now, now + 1} \cap Times :
          LET r == store(indexFile, dirs, files, frame[p].topic,
                         frame[p].message, fault, now, t2)
          IN  /\ indexFile' = r.indexFile
              /\ dirs' = r.dirs
              /\ files' = r.files
              /\ now' = IF r.appended THEN t2 ELSE now
              /\ frame' = [frame EXCEPT ![p] =
                    [@ EXCEPT !.pc = "done", !.loaded = r.loaded,
                              !.index = r.index, !.msgNumber = r.msgNumber,
                              !.num = r.num, !.err = r.err,
                              !.appended = r.appended]]
    /\ UNCHANGED mutex

\* DeleteContents, filestore.go:37.
DeleteContentsRun(p) ==
    /\ frame[p].op = "DeleteContents"
    /\ frame[p].pc = "locked"
    /\ \E fault \in DeleteFaults, k \in 1 .. (Cardinality(Topics) + 1) :
          LET r == deleteContents(indexFile, dirs, files, fault, k)
          IN  /\ indexFile' = r.indexFile
              /\ dirs' = r.dirs
              /\ files' = r.files
              /\ frame' = [frame EXCEPT ![p] =
                    [@ EXCEPT !.pc = "done", !.err = r.err]]
    /\ UNCHANGED <<now, mutex>>

\* A return that unlocks the mutex on the path without error only.
UnlockWithoutErrorOnly(p) ==
    /\ frame[p].op \in {"Store", "DeleteContents"}
    /\ frame[p].pc = "done"
    /\ mutex' = IF frame[p].err = "" THEN NoHolder ELSE mutex
    /\ frame' = [q \in Procs |->
          IF q = p THEN IdleFrame
          ELSE IF /\ frame[p].op = "Store" /\ frame[p].appended
                  /\ frame[q].op = "Store" /\ frame[q].pc = "wait"
                  /\ frame[q].topic = frame[p].topic
          THEN [frame[q] EXCEPT !.peer = @ \cup {frame[p].num}]
          ELSE frame[q]]
    /\ UNCHANGED <<indexFile, dirs, files, now>>

\* Store or DeleteContents returns: the deferred mutex.Unlock() runs.
Unlock(p) ==
    /\ frame[p].op \in {"Store", "DeleteContents"}
    /\ frame[p].pc = "done"
    /\ mutex' = NoHolder
    /\ frame' = [q \in Procs |->
          IF q = p THEN IdleFrame
          ELSE IF /\ frame[p].op = "Store" /\ frame[p].appended
                  /\ frame[q].op = "Store" /\ frame[q].pc = "wait"
                  /\ frame[q].topic = frame[p].topic
          THEN [frame[q] EXCEPT !.peer = @ \cup {frame[p].num}]
          ELSE frame[q]]
    /\ UNCHANGED <<indexFile, dirs, files, now>>

\* A Poll that creates the directory of the topic it is asked for.
PollRunCreatesTopicDir(p, topic, readFrom) ==
    /\ frame[p].pc = "idle"
    /\ LET r == Poll(indexFile, files, topic, readFrom)
       IN  frame' = [frame EXCEPT ![p] =
              [IdleFrame EXCEPT !.op = "Poll", !.pc = "done",
                                !.topic = topic, !.n = readFrom,
                                !.found = r.found, !.num = r.num,
                                !.err = r.err]]
    /\ dirs' = dirs \cup {topic}
    /\ UNCHANGED <<indexFile, files, now, mutex>>

\* Poll(topic, readFrom) is called and runs filestore.go:62-63.
PollRun(p, topic, readFrom) ==
    /\ frame[p].pc = "idle"
    /\ LET r == Poll(indexFile, files, topic, readFrom)
       IN  frame' = [frame EXCEPT ![p] =
              [IdleFrame EXCEPT !.op = "Poll", !.pc = "done",
                                !.topic = topic, !.n = readFrom,
                                !.found = r.found, !.num = r.num,
                                !.err = r.err]]
    /\ UNCHANGED <<indexFile, dirs, files, now, mutex>>

\* RemoveOldMessages(maxAge) is called and runs filestore.go:54.
RemoveOldMessagesRun(p, maxAge) ==
    /\ frame[p].pc = "idle"
    /\ LET r == RemoveOldMessages(indexFile, files, maxAge)
       IN  frame' = [frame EXCEPT ![p] =
              [IdleFrame EXCEPT !.op = "RemoveOldMessages", !.pc = "done",
                                !.n = maxAge, !.num = r.num, !.err = r.err]]
    /\ UNCHANGED <<indexFile, dirs, files, now, mutex>>

\* Poll or RemoveOldMessages returns.
Return(p) ==
    /\ frame[p].op \in {"Poll", "RemoveOldMessages"}
    /\ frame[p].pc = "done"
    /\ frame' = [frame EXCEPT ![p] = IdleFrame]
    /\ UNCHANGED <<indexFile, dirs, files, now, mutex>>

\* The steps of the goroutines P that call Store with the topics T and the
\* messages M, Poll with the topics T and the offsets R, and
\* RemoveOldMessages with the times A.
Calls(P, T, M, R, A) ==
    \/ Tick
    \/ \E p \in P, topic \in T, message \in M : StoreCall(p, topic, message)
    \/ \E p \in P : DeleteContentsCall(p)
    \/ \E p \in P : Lock(p)
    \/ \E p \in P : StoreRun(p)
    \/ \E p \in P : DeleteContentsRun(p)
    \/ \E p \in P : Unlock(p)
    \/ \E p \in P, topic \in T, readFrom \in R : PollRun(p, topic, readFrom)
    \/ \E p \in P, maxAge \in A : RemoveOldMessagesRun(p, maxAge)
    \/ \E p \in P : Return(p)

\* Concurrent callers: every goroutine calls the store, all on topic a1 and
\* with messages of one size.
Next == Calls(Procs, {"a1"}, {"half"}, {Origin}, {MaxTime})

Spec == Init /\ [][Next]_vars

\* Fair scheduling of the concurrent callers: a goroutine that holds the
\* mutex goes on to run and to return, and a goroutine blocked in
\* mutex.Lock() is not passed over for ever (sync.Mutex hands the mutex to a
\* starving waiter).
Fairness ==
    \A p \in Procs :
        /\ SF_vars(Lock(p))
        /\ WF_vars(StoreRun(p) \/ DeleteContentsRun(p) \/ Unlock(p))

FairSpec == Init /\ [][Next]_vars /\ Fairness

\* One caller, every topic, message, offset and time.
SerialNext == Calls({1}, Topics, Messages, ReadFroms, Times)

SerialSpec == Init /\ [][SerialNext]_vars

\* ------------------------------------------------------------------------
\* What the claims speak of.
\* ------------------------------------------------------------------------

\* Goroutine p is inside Store: store is about to run / has run.
StoreLocked(p) == frame[p].op = "Store" /\ frame[p].pc = "locked"

StoreDone(p) == frame[p].op = "Store" /\ frame[p].pc = "done"

\* The step is a run of store by goroutine p.
StoreStep(p) == StoreLocked(p) /\ frame'[p].pc = "done"

\* The index file can be opened and decoded.
Loadable(f) == f.exists /\ f.valid

\* The errors of store that come from a system call made to fail in the
\* run (or from a platform that refuses the append), as opposed to those
\* that the state of the index file decides.
InjectedErrors ==
    {"createTopicDirIfNotExists", "fileHasInsufficietRoom()",
     "setupNewFileForTopic()", "saveAndRegisterMessage()"}

RECURSIVE BytesIn(_, _)
BytesIn(fm, names) ==
    IF names = {} THEN 0
    ELSE LET n == CHOOSE x \in names : TRUE
         IN  SumLen(fm[n]) + BytesIn(fm, names \ {n})

\* The bytes held by all message files of a topic.
TopicBytes(fs, topic) == BytesIn(fs[topic], DOMAIN fs[topic])

\* The records held by all message files of a topic.
TopicRecords(fs, topic) ==
    UNION {Range(fs[topic][n]) : n \in DOMAIN fs[topic]}

\* The message numbers an index records for a topic.
AllRegistered(index, topic) ==
    UNION {{m.num : m \in Range(seg.msgs)} : seg \in Range(index[topic].segs)}

RECURSIVE RecordsOf(_, _, _)
\* The records of the message files that the index lists for a topic, in the
\* order of the list.
RecordsOf(segs, fs, topic) ==
    IF segs = <<>> THEN <<>>
    ELSE (IF Head(segs).fileName \in DOMAIN fs[topic]
          THEN fs[topic][Head(segs).fileName] ELSE <<>>)
         \o RecordsOf(Tail(segs), fs, topic)

\* A message as Poll returns it, with its number.
PollView(rec) ==
    [message |-> rec.message, messageNumber |-> rec.messageNumber]

\* What Poll(topic, readFrom) is to return: the messages of the topic whose
\* number is at least readFrom, in the order of their numbers.
ExpectedPoll(f, fs, topic, readFrom) ==
    IF ~Loadable(f) THEN <<>>
    ELSE LET recs == SelectSeq(RecordsOf(f.idx[topic].segs, fs, topic),
                               LAMBDA r : r.messageNumber >= readFrom)
         IN  [i \in 1 .. Len(recs) |-> PollView(recs[i])]

Max(S) == CHOOSE x \in S : \A y \in S : y <= x

\* The numbers of the messages of a topic created before maxAge.
OldNumbers(fs, topic, maxAge) ==
    {r.messageNumber : r \in {x \in TopicRecords(fs, topic) :
                                 x.creationTime < maxAge}}

RECURSIVE CountOld(_, _, _)
CountOld(fs, topics, maxAge) ==
    IF topics = {} THEN 0
    ELSE LET t == CHOOSE x \in topics : TRUE
         IN  Cardinality(OldNumbers(fs, t, maxAge))
                 + CountOld(fs, topics \ {t}, maxAge)

\* S is a run of consecutive integers.
IsRun(S) == \A x \in S, y \in S : \A z \in x .. y : z \in S

\* ------------------------------------------------------------------------
\* Claims.
\* ------------------------------------------------------------------------

\* C1: the Store calls on a topic return, in call order, the consecutive
\* numbers k, k+1, ...: every run of store that wrote its message returns
\* without error the topic's next message number, and the topic's next
\* number in the index file is then one greater.
ClaimC1 ==
    [][\A p \in Procs :
          (StoreStep(p) /\ frame'[p].appended) =>
              /\ frame'[p].err = ""
              /\ frame'[p].num =
                    NextMessageNumberFor(indexFile.idx, frame[p].topic)
              /\ Loadable(indexFile')
              /\ NextMessageNumberFor(indexFile'.idx, frame[p].topic) =
                    frame'[p].num + 1]_vars

\* C2: a Store call that wrote its message receives a number distinct from
\* every number received by the Store calls on the same topic that ran while
\* it waited for the mutex, and together these numbers are a run of
\* consecutive integers.
ClaimC2 ==
    \A p \in Procs :
        (StoreDone(p) /\ frame[p].appended) =>
            /\ frame[p].num \notin frame[p].peer
            /\ IsRun(frame[p].peer \cup {frame[p].num})

\* C3: Poll(topic, readFrom) returns exactly the messages of the topic whose
\* number is at least readFrom, in the order of their numbers.
ClaimC3 ==
    \A p \in Procs :
        (frame[p].op = "Poll" /\ frame[p].pc = "done") =>
            frame[p].found =
                ExpectedPoll(indexFile, files, frame[p].topic, frame[p].n)

\* C4: the newReadFrom that Poll returns is one greater than the highest
\* message number returned, and readFrom when no message is returned.
ClaimC4 ==
    \A p \in Procs :
        (frame[p].op = "Poll" /\ frame[p].pc = "done") =>
            frame[p].num =
                IF frame[p].found = <<>> THEN frame[p].n
                ELSE 1 + Max({m.messageNumber : m \in Range(frame[p].found)})

\* C5: after RemoveOldMessages(maxAge) no Poll returns a message created
\* before maxAge, and the value returned accounts for exactly the messages
\* created before maxAge (as many as there were).
ClaimC5 ==
    [][\A p \in Procs :
          (frame[p].pc = "idle" /\ frame'[p].op = "RemoveOldMessages") =>
              /\ \A t \in Topics, readFrom \in ReadFroms :
                    \A m \in Range(Poll(indexFile', files', t, readFrom).found) :
                        m.messageNumber \notin OldNumbers(files, t, frame'[p].n)
              /\ frame'[p].num = CountOld(files, Topics, frame'[p].n)]_vars

\* C6: no message file is larger than maximumFileSize, and a topic whose
\* message files hold more than maximumFileSize bytes has more than one
\* message file.
ClaimC6 ==
    \A t \in Topics :
        /\ \A n \in DOMAIN files[t] : SumLen(files[t][n]) <= maximumFileSize
        /\ TopicBytes(files, t) > maximumFileSize =>
               Cardinality(DOMAIN files[t]) >= 2

\* C7: on a store whose contents DeleteContents has removed (rootDir has no
\* entry), a run of store in which no system call is made to fail returns
\* without error the origin message number.
ClaimC7 ==
    [][\A p \in Procs :
          (/\ StoreStep(p)
           /\ RootEntries(indexFile, dirs) = <<>>
           /\ frame'[p].err \notin InjectedErrors) =>
              /\ frame'[p].err = ""
              /\ frame'[p].num = Origin]_vars

\* C8: a goroutine that is running Store, RemoveOldMessages or Poll holds the
\* mutex (so no two of them run at the same time).
ClaimC8 ==
    \A p \in Procs :
        (/\ frame[p].op \in {"Store", "RemoveOldMessages", "Poll"}
         /\ frame[p].pc \in {"locked", "done"}) =>
            mutex = p

\* C9: a run of store in which the append to the message file fails returns
\* an error, has not registered the message number in the index, and leaves
\* the index file as it was, so that the next Store on the topic is handed
\* the same number.
TheoremC9 ==
    [][\A p \in Procs :
          (StoreStep(p) /\ frame'[p].err = "saveAndRegisterMessage()") =>
              /\ frame'[p].num = ErrorMessageNumber
              /\ frame'[p].msgNumber \notin
                    AllRegistered(frame'[p].index, frame[p].topic)
              /\ indexFile' = indexFile
              /\ NextMessageNumberFor(retrieveIndexFromDisk(indexFile').index,
                                      frame[p].topic) = frame'[p].msgNumber]_vars

\* A Store whose append failed after a new message file had been set up.
WitnessC9 ==
    \E p \in Procs :
        /\ StoreDone(p)
        /\ frame[p].err = "saveAndRegisterMessage()"
        /\ frame[p].msgNumber = Origin + 1
        /\ Len(frame[p].index[frame[p].topic].segs) = 2

\* C10: a run of store that finds the index file missing or undecodable
\* returns an error and leaves the index file, the topic directories and the
\* message files as they were.
TheoremC10 ==
    [][\A p \in Procs :
          (StoreStep(p) /\ ~Loadable(indexFile)) =>
              /\ frame'[p].err = "RetrieveIndexFromDisk()"
              /\ frame'[p].num = ErrorMessageNumber
              /\ indexFile' = indexFile
              /\ dirs' = dirs
              /\ files' = files]_vars

\* A Store has failed on an undecodable index file.
WitnessC10 ==
    \E p \in Procs :
        /\ StoreDone(p)
        /\ frame[p].err = "RetrieveIndexFromDisk()"
        /\ indexFile.exists
        /\ ~indexFile.valid

\* The places (message file, position) of the records of a topic.
Places(fs, topic) ==
    UNION {{<<n, i>> : i \in 1 .. Len(fs[topic][n])} : n \in DOMAIN fs[topic]}

RecordAt(fs, topic, place) == fs[topic][place[1]][place[2]]

\* The message numbers an index records for one message file of a topic.
RegisteredIn(index, topic, fileName) ==
    UNION {{m.num : m \in Range(seg.msgs)} :
             seg \in {x \in Range(index[topic].segs) : x.fileName = fileName}}

\* The places of the records that the index file accounts for: the record
\* lies in a message file the index lists, under a number registered for it.
IndexedPlaces(f, fs, topic) ==
    IF ~Loadable(f) THEN {}
    ELSE {pl \in Places(fs, topic) :
            RecordAt(fs, topic, pl).messageNumber
                \in RegisteredIn(f.idx, topic, pl[1])}

\* A record created later never carries a smaller number.
NumbersFollowArrival(fs, topic) ==
    \A a \in Places(fs, topic), b \in Places(fs, topic) :
        RecordAt(fs, topic, a).creationTime < RecordAt(fs, topic, b).creationTime
            => RecordAt(fs, topic, a).messageNumber
                   <= RecordAt(fs, topic, b).messageNumber

ClaimC12 ==
    [][\A p \in Procs :
          (StoreStep(p) /\ frame'[p].appended) =>
              /\ frame'[p].err = ""
              /\ Loadable(indexFile')
              /\ frame'[p].num \in
                    RegisteredIn(indexFile'.idx, frame[p].topic,
                        CurrentMsgFileNameFor(indexFile'.idx, frame[p].topic))
              /\ retrieveIndexFromDisk(indexFile').index = frame'[p].index]_vars

\* The run of store by goroutine p got past the choice of the message file
\* (filestore.go:100-117) in this step.
ChoseFile(p) ==
    /\ StoreStep(p)
    /\ frame'[p].err \in {"", "saveIndex()", "saveAndRegisterMessage()"}

\* The topic has no current message file, or the message does not fit in it.
NeedsNewFile(index, fs, topic, message) ==
    LET current == CurrentMsgFileNameFor(index, topic)
    IN  \/ current = NoFile
        \/ SumLen(fs[topic][current]) + EncodedLen(message) > maximumFileSize

\* C13: a run of store creates and registers a new message file exactly
\* when the topic has no current message file or the size of the current one
\* plus the size of the encoded message exceeds maximumFileSize (a message
\* that fills the file exactly goes to the current file), and the record is
\* written at the end of the file so chosen, all other files untouched.
TheoremC13 ==
    [][\A p \in Procs :
          ChoseFile(p) =>
              LET t == frame[p].topic
                  idx == indexFile.idx
                  current == CurrentMsgFileNameFor(idx, t)
                  new == NewMsgFilenameFor(t, idx)
                  need == NeedsNewFile(idx, files, t, frame[p].message)
                  chosen == IF need THEN new ELSE current
                  before == IF need THEN <<>> ELSE files[t][current]
              IN  /\ need =>
                        /\ new \in DOMAIN files'[t]
                        /\ CurrentMsgFileNameFor(frame'[p].index, t) = new
                        /\ Len(frame'[p].index[t].segs) = Len(idx[t].segs) + 1
                  /\ ~need =>
                        /\ DOMAIN files'[t] = DOMAIN files[t]
                        /\ frame'[p].index[t].segs # <<>>
                        /\ Len(frame'[p].index[t].segs) = Len(idx[t].segs)
                  /\ \A n \in DOMAIN files'[t] :
                        files'[t][n] =
                            IF n = chosen
                            THEN IF frame'[p].appended
                                 THEN Append(before,
                                          [message |-> frame[p].message,
                                           creationTime |-> now,
                                           messageNumber |-> frame'[p].msgNumber])
                                 ELSE before
                            ELSE files[t][n]]_vars

\* A run of store wrote a message that fills the current message file
\* exactly: the file is full and no new file was registered.
WitnessC13 ==
    \E p \in Procs :
        /\ StoreDone(p)
        /\ frame[p].appended
        /\ Len(frame[p].index[frame[p].topic].segs) = 1
        /\ LET current == CurrentMsgFileNameFor(frame[p].index, frame[p].topic)
           IN  /\ Len(files[frame[p].topic][current]) = 2
               /\ SumLen(files[frame[p].topic][current]) = maximumFileSize

\* C14: once a later message file of the topic exists, no run of store
\* changes an earlier one: the file a run of store writes to is the one
\* created last (the file of the greatest sequence number).
ClaimC14 ==
    [][\A p \in Procs :
          StoreStep(p) =>
              \A n \in DOMAIN files[frame[p].topic] :
                  files'[frame[p].topic][n] # files[frame[p].topic][n]
                      => n = Max(DOMAIN files'[frame[p].topic])]_vars

\* Every message number the index file records for a message file of a
\* topic is the number of a record in that message file.
IndexBacked(f, fs) ==
    Loadable(f) =>
        \A t \in Topics : \A seg \in Range(f.idx[t].segs) :
            \A m \in Range(seg.msgs) :
                /\ seg.fileName \in DOMAIN fs[t]
                /\ \E i \in 1 .. Len(fs[t][seg.fileName]) :
                      fs[t][seg.fileName][i].messageNumber = m.num

\* C15: in every reachable state every message number recorded in the index
\* file for a message file is the number of a record in that file.
ClaimC15 == IndexBacked(indexFile, files)

\* The record that the run of store by goroutine p wrote is in a message
\* file of its topic.
RecordOnDisk(p, fs) ==
    \E pl \in Places(fs, frame[p].topic) :
        /\ RecordAt(fs, frame[p].topic, pl).message = frame[p].message
        /\ RecordAt(fs, frame[p].topic, pl).messageNumber = frame[p].msgNumber

\* C16: a run of store whose append succeeds and whose saveIndex fails
\* returns -1 with an error, and leaves the record in the message file while
\* the index file is as before and records the record's number nowhere for
\* the topic.
TheoremC16 ==
    [][\A p \in Procs :
          (StoreStep(p) /\ frame'[p].appended /\ frame'[p].err = "saveIndex()")
              => /\ frame'[p].num = ErrorMessageNumber
                 /\ LET t == frame[p].topic
                        last == CurrentMsgFileNameFor(frame'[p].index, t)
                    IN  /\ last \in DOMAIN files'[t]
                        /\ files'[t][last] # <<>>
                        /\ files'[t][last][Len(files'[t][last])].messageNumber
                               = frame'[p].msgNumber
                        /\ files'[t][last][Len(files'[t][last])].message
                               = frame[p].message
                        /\ Loadable(indexFile')
                        /\ frame'[p].msgNumber
                               \notin AllRegistered(indexFile'.idx, t)
                 /\ indexFile' = indexFile]_vars

\* A run of store returned the error of saveIndex: its record is in a
\* message file and its number is not in the index file.
WitnessC16 ==
    \E p \in Procs :
        /\ StoreDone(p)
        /\ frame[p].appended
        /\ frame[p].err = "saveIndex()"
        /\ RecordOnDisk(p, files)
        /\ frame[p].msgNumber \notin AllRegistered(indexFile.idx, frame[p].topic)

\* Goroutine p is between mutex.Lock() and the deferred mutex.Unlock().
HoldsLock(p) ==
    /\ frame[p].op \in {"Store", "DeleteContents"}
    /\ frame[p].pc \in {"locked", "done"}

\* C17: the mutex is held exactly by the goroutine that is inside Store or
\* DeleteContents (so it is free whenever none is, whatever the calls
\* returned), and a goroutine waiting in mutex.Lock() eventually acquires
\* the mutex.
TheoremC17 ==
    /\ [](\A p \in Procs : HoldsLock(p) <=> mutex = p)
    /\ [](mutex = NoHolder <=> \A p \in Procs : ~HoldsLock(p))
    /\ \A p \in Procs : (frame[p].pc = "wait") ~> (mutex = p)

\* A goroutine acquired the mutex after it waited for a Store call that
\* wrote its message and returned an error.
WitnessC17 ==
    \E p \in Procs :
        /\ frame[p].pc = "locked"
        /\ mutex = p
        /\ frame[p].peer # {}

\* The timestamps that an index records for a message number of a topic.
RegisteredTimes(index, topic, msgNumber) ==
    UNION {{m.ts : m \in {x \in Range(seg.msgs) : x.num = msgNumber}} :
             seg \in Range(index[topic].segs)}

\* C18: the timestamp that a run of store registers in the index for the
\* message it wrote equals the creationTime of the record it wrote.
ClaimC18 ==
    \A p \in Procs :
        (StoreDone(p) /\ frame[p].appended) =>
            LET t == frame[p].topic
                last == CurrentMsgFileNameFor(frame[p].index, t)
                rec == files[t][last][Len(files[t][last])]
            IN  RegisteredTimes(frame[p].index, t, frame[p].msgNumber)
                    = {rec.creationTime}

\* The step is a Poll call by goroutine p, from the call to the return
\* values.
PollStep(p) ==
    /\ frame[p].pc = "idle"
    /\ frame'[p].op = "Poll"
    /\ frame'[p].pc = "done"

\* C19: a Poll call leaves the index file, the topic directories and every
\* message file as they were, for every topic and readFrom.
TheoremC19 ==
    [][\A p \in Procs :
          PollStep(p) =>
              /\ indexFile' = indexFile
              /\ dirs' = dirs
              /\ files' = files]_vars

\* Poll returned for a topic that holds a record whose number is at least
\* the readFrom of the call.
WitnessC19 ==
    \E p \in Procs :
        /\ frame[p].op = "Poll"
        /\ frame[p].pc = "done"
        /\ \E r \in TopicRecords(files, frame[p].topic) :
              r.messageNumber >= frame[p].n

\* The message files that the index file lists for a topic.
ListedFiles(f, topic) ==
    IF Loadable(f) THEN {seg.fileName : seg \in Range(f.idx[topic].segs)}
    ELSE {}

\* C20: in every reachable state every message file in a topic's directory
\* is listed for the topic in the index file.
ClaimC20 ==
    \A t \in Topics : DOMAIN files[t] \subseteq ListedFiles(indexFile, t)

=============================================================================
